---- MODULE Spec2Model ----
(***************************************************************************)
(* Model of the gardener-installation version registry                     *)
(* (src/ts/versions/installations.ts), of the installer of the 1.80 band   *)
(* and of the Gardener deployment task.                                    *)
(***************************************************************************)
EXTENDS Integers, Sequences, FiniteSets, TLC

VARIABLES
    \* version registry: one call of getInstallation or convertStateValues
    rpc, argVersion, argState, argTarget, result,
    \* installer chain: one installation run
    ipc, priorState, inputValues, cur, stateValues, checked, calls, effects, ierr,
    \* Gardener task: one run of do()
    gpc, gstatus, dryRun, overrides, virtualClient, gardenerValues, applied,
    steps, raised, thrown

registryVars == <<rpc, argVersion, argState, argTarget, result>>
installVars ==
    <<ipc, priorState, inputValues, cur, stateValues, checked, calls, effects, ierr>>
gardenerVars ==
    <<gpc, gstatus, dryRun, overrides, virtualClient, gardenerValues, applied,
      steps, raised, thrown>>
vars == <<registryVars, installVars, gardenerVars>>

(***************************************************************************)
(* Bounds of the model.                                                    *)
(***************************************************************************)
\* minors checked below the oldest and above the newest declared band
MinorMargin == 2
\* patch numbers 0..MaxPatch
MaxPatch == 1
\* major numbers 0..MaxMajor
MaxMajor == 2
\* apiserver minors within this distance of the floor's minor
ApiMinorMargin == 3
\* apiserver patches within this distance of the floor's patch
ApiPatchMargin == 1

(***************************************************************************)
(* Version strings.  A well-formed string is [v]MAJOR.MINOR.PATCH[-PRE];   *)
(* the record keeps what was written, including the optional "v" prefix.   *)
(***************************************************************************)
Str(v, major, minor, patch, pre) ==
    [wellformed |-> TRUE, v |-> v, major |-> major, minor |-> minor,
     patch |-> patch, pre |-> pre]

\* a string that is no semantic version ("latest", "", "1.80")
Garbage ==
    [wellformed |-> FALSE, v |-> FALSE, major |-> 0, minor |-> 0,
     patch |-> 0, pre |-> ""]

\* prerelease tags of the model: none, "0" (the lowest there is), "rc"
PreTags == {"", "0", "rc"}

\* order of prerelease tags: a release is above every prerelease, and a
\* numeric identifier is below an alphanumeric one
PreRank(pre) == IF pre = "" THEN 2 ELSE IF pre = "rc" THEN 1 ELSE 0

(***************************************************************************)
(* semver: new SemVer(s), compareMain, compare, satisfies.                 *)
(***************************************************************************)
\* new SemVer(s): throws TypeError on a malformed string; keeps the input
\* as .raw and the normalised text (no "v") as .version
SemVer(s) ==
    IF ~s.wellformed
    THEN [ok |-> FALSE]
    ELSE [ok |-> TRUE, raw |-> s, major |-> s.major, minor |-> s.minor,
          patch |-> s.patch, pre |-> s.pre,
          version |-> Str(FALSE, s.major, s.minor, s.patch, s.pre)]

Sign(a, b) == IF a < b THEN -1 ELSE IF a > b THEN 1 ELSE 0

\* SemVer.compareMain: major, minor, patch; the prerelease is ignored
compareMain(a, b) ==
    IF a.major # b.major THEN Sign(a.major, b.major)
    ELSE IF a.minor # b.minor THEN Sign(a.minor, b.minor)
    ELSE Sign(a.patch, b.patch)

\* SemVer.compare: compareMain, then the prerelease
compare(a, b) ==
    IF compareMain(a, b) # 0 THEN compareMain(a, b)
    ELSE Sign(PreRank(a.pre), PreRank(b.pre))

\* an X-range: "vMAJOR.MINOR.x" (wild = "patch") or "vMAJOR.x" (wild = "minor")
XRange(major, minor) == [major |-> major, minor |-> minor, wild |-> "patch"]

\* the comparators of an X-range: "vMAJOR.MINOR.x" is
\* >=MAJOR.MINOR.0 <MAJOR.(MINOR+1).0-0, "vMAJOR.x" is >=MAJOR.0.0 <(MAJOR+1).0.0-0
RangeLow(range) ==
    IF range.wild = "patch"
    THEN SemVer(Str(FALSE, range.major, range.minor, 0, ""))
    ELSE SemVer(Str(FALSE, range.major, 0, 0, ""))

RangeHigh(range) ==
    IF range.wild = "patch"
    THEN SemVer(Str(FALSE, range.major, range.minor + 1, 0, "0"))
    ELSE SemVer(Str(FALSE, range.major + 1, 0, 0, "0"))

\* satisfies(version, range): false for a malformed version; a prerelease
\* version only satisfies a range with a prerelease comparator on the same
\* MAJOR.MINOR.PATCH
satisfies(version, range) ==
    LET sv == SemVer(version) IN
    /\ sv.ok
    /\ compare(sv, RangeLow(range)) >= 0
    /\ compare(sv, RangeHigh(range)) < 0
    /\ (sv.pre # "" => compareMain(sv, RangeHigh(range)) = 0)

(***************************************************************************)
(* The version registry.                                                   *)
(***************************************************************************)
\* the entries 'v1.lo.x' .. 'v1.hi.x' of the table, all bound to one constructor
Entries(lo, hi, ctor) ==
    [i \in 1..(hi - lo + 1) |-> [range |-> XRange(1, lo + i - 1), ctor |-> ctor]]

\* the table with 'v1.89.x' left out
versionsWithGap ==
    Entries(46, 46, "Installation_1_46") \o Entries(47, 49, "Installation_1_47")
    \o Entries(50, 50, "Installation_1_50") \o Entries(51, 61, "Installation_1_51")
    \o Entries(62, 73, "Installation_1_62") \o Entries(74, 79, "Installation_1_74")
    \o Entries(80, 80, "Installation_1_80") \o Entries(81, 88, "Installation_1_81")
    \o Entries(90, 95, "Installation_1_90")

\* the table with a trailing catch-all 'v1.x' entry
versionsWithCatchAll ==
    Entries(46, 46, "Installation_1_46") \o Entries(47, 49, "Installation_1_47")
    \o Entries(50, 50, "Installation_1_50") \o Entries(51, 61, "Installation_1_51")
    \o Entries(62, 73, "Installation_1_62") \o Entries(74, 79, "Installation_1_74")
    \o Entries(80, 80, "Installation_1_80") \o Entries(81, 89, "Installation_1_81")
    \o Entries(90, 95, "Installation_1_90")
    \o <<[range |-> [major |-> 1, minor |-> 0, wild |-> "minor"],
          ctor |-> "Installation_1_46"]>>

\* const versions: Record<string, InstallationConstructor>, in declaration order
versions ==
    Entries(46, 46, "Installation_1_46") \o Entries(47, 49, "Installation_1_47")
    \o Entries(50, 50, "Installation_1_50") \o Entries(51, 61, "Installation_1_51")
    \o Entries(62, 73, "Installation_1_62") \o Entries(74, 79, "Installation_1_74")
    \o Entries(80, 80, "Installation_1_80") \o Entries(81, 89, "Installation_1_81")
    \o Entries(90, 95, "Installation_1_90")

\* the imported installer constructors
Constructors ==
    {"Installation_1_46", "Installation_1_47", "Installation_1_50",
     "Installation_1_51", "Installation_1_62", "Installation_1_74",
     "Installation_1_80", "Installation_1_81", "Installation_1_90"}

\* Object.keys(versions).find(v => satisfies(version, v)): the index of the
\* first entry the version satisfies, 0 when there is none
FindMatching(version) ==
    LET hits == {i \in DOMAIN versions : satisfies(version, versions[i].range)} IN
    IF hits = {} THEN 0 ELSE CHOOSE i \in hits : \A j \in hits : i <= j

VersionNotFound(version) ==
    [kind |-> "throw", error |-> "VersionNotFound", version |-> version]

getInstallation(version) ==
    LET matchingVersion == FindMatching(version) IN
    IF matchingVersion = 0
    THEN VersionNotFound(version)
    ELSE [kind |-> "return", ctor |-> versions[matchingVersion].ctor]

\* a conversion that looks the target version up instead of the state's
convertStateValuesByTarget(state, targetVersion) ==
    LET matchingVersion == FindMatching(targetVersion) IN
    IF matchingVersion = 0
    THEN VersionNotFound(targetVersion)
    ELSE [kind |-> "return", state |-> state]

convertStateValues(state, targetVersion) ==
    LET matchingVersion == FindMatching(state.version) IN
    IF matchingVersion = 0
    THEN VersionNotFound(state.version)
    ELSE [kind |-> "return", state |-> state]

(***************************************************************************)
(* Calls of the registry's two exported functions.                         *)
(***************************************************************************)
\* the version strings the calls are made with
VersionStrings ==
    {Str(v, major, minor, patch, pre) :
        v \in BOOLEAN, major \in 0..MaxMajor,
        minor \in (46 - MinorMargin)..(95 + MinorMargin),
        patch \in 0..MaxPatch, pre \in PreTags}
    \cup {Garbage}

\* the target versions convertStateValues is called with
TargetStrings ==
    {Str(FALSE, 1, 80, 0, ""), Str(TRUE, 1, 95 + MinorMargin, 0, ""), Garbage}

NoResult == [kind |-> "none"]

RegistryIdle ==
    /\ rpc = "idle" /\ argVersion = Garbage /\ argTarget = Garbage
    /\ argState = [version |-> Garbage] /\ result = NoResult

RegistryInit ==
    /\ rpc = "idle"
    /\ argVersion \in VersionStrings
    /\ argTarget \in TargetStrings
    /\ argState = [version |-> argVersion,
                   apiserver |-> [version |-> Str(TRUE, 1, 23, 16, "")]]
    /\ result = NoResult

CallGetInstallation ==
    /\ rpc = "idle"
    /\ result' = getInstallation(argVersion)
    /\ rpc' = "resolved"
    /\ UNCHANGED <<argVersion, argState, argTarget, installVars, gardenerVars>>

CallConvertStateValues ==
    /\ rpc = "idle"
    /\ result' = convertStateValues(argState, argTarget)
    /\ rpc' = "converted"
    /\ UNCHANGED <<argVersion, argState, argTarget, installVars, gardenerVars>>

(***************************************************************************)
(* Persisted state (VersionedState) and its structural validation.         *)
(***************************************************************************)
Null == [null |-> TRUE]

StateOf(version, apiserverVersion) ==
    [version |-> version, apiserver |-> [version |-> apiserverVersion]]

\* isStateValues: the state carries a version tag and the apiserver sub-object
isStateValues(state) ==
    /\ "version" \in DOMAIN state
    /\ "apiserver" \in DOMAIN state

\* validateState: the error describing what the state is missing
validateState(state) ==
    [kind |-> "throw", error |-> "MalformedState",
     missing |-> {"version", "apiserver"} \ DOMAIN state]

\* the apiserver version strings of the model, around the floor v1.23.16
ApiVersions ==
    {Str(v, major, minor, patch, pre) :
        v \in BOOLEAN, major \in 0..MaxMajor,
        minor \in (23 - ApiMinorMargin)..(23 + ApiMinorMargin),
        patch \in (16 - ApiPatchMargin)..(16 + ApiPatchMargin),
        pre \in PreTags}

\* emptyState(version): an empty state tagged with the version; the apiserver
\* version it starts with is any well-formed one
emptyState(version) == {StateOf(version, a) : a \in ApiVersions}

(***************************************************************************)
(* The 1.80 installer.                                                     *)
(***************************************************************************)
\* the floor of the 1.74 band, which the comment in install still names
targetVirtualClusterVersion_1_22 == SemVer(Str(TRUE, 1, 22, 0, ""))

\* const targetVirtualClusterVersion = new SemVer('v1.23.16')
targetVirtualClusterVersion == SemVer(Str(TRUE, 1, 23, 16, ""))

NoError == [kind |-> "none"]
TypeError == [kind |-> "throw", error |-> "TypeError"]

SuperCall(state, values) == [state |-> state, values |-> values]

\* the outcome of the synchronous part of install, up to the await of
\* super.install: the state as it was when the floor was checked, the state
\* after the correction, the calls of super.install and the error thrown
Outcome(atCheck, state, superCalls, error) ==
    [checked |-> atCheck, state |-> state, superCalls |-> superCalls, error |-> error]

FloorCorrected(s0) ==
    IF compareMain(SemVer(s0.apiserver.version), targetVirtualClusterVersion) = -1
    THEN [s0 EXCEPT !.apiserver.version = targetVirtualClusterVersion.raw]
    ELSE s0

\* install that calls super.install before it validates the state
install_1_80_ValidateLate(stateValues0, fresh, inputValues0) ==
    LET s0 == IF stateValues0 = Null THEN fresh ELSE stateValues0 IN
    IF ~isStateValues(s0)
    THEN Outcome(s0, s0, <<SuperCall(s0, inputValues0)>>, validateState(s0))
    ELSE IF ~SemVer(s0.apiserver.version).ok
    THEN Outcome(s0, s0, <<>>, TypeError)
    ELSE Outcome(s0, FloorCorrected(s0),
                 <<SuperCall(FloorCorrected(s0), inputValues0)>>, NoError)

\* install that calls super.install before and after the floor correction
install_1_80_Twice(stateValues0, fresh, inputValues0) ==
    LET s0 == IF stateValues0 = Null THEN fresh ELSE stateValues0 IN
    IF ~isStateValues(s0)
    THEN Outcome(s0, s0, <<>>, validateState(s0))
    ELSE IF ~SemVer(s0.apiserver.version).ok
    THEN Outcome(s0, s0, <<>>, TypeError)
    ELSE Outcome(s0, FloorCorrected(s0),
                 <<SuperCall(s0, inputValues0),
                   SuperCall(FloorCorrected(s0), inputValues0)>>, NoError)

\* install that checks the floor of a prior state only, not of a fresh one
install_1_80_FreshUnchecked(stateValues0, fresh, inputValues0) ==
    IF stateValues0 = Null
    THEN Outcome(fresh, fresh, <<SuperCall(fresh, inputValues0)>>, NoError)
    ELSE IF ~isStateValues(stateValues0)
    THEN Outcome(stateValues0, stateValues0, <<>>, validateState(stateValues0))
    ELSE IF ~SemVer(stateValues0.apiserver.version).ok
    THEN Outcome(stateValues0, stateValues0, <<>>, TypeError)
    ELSE Outcome(stateValues0, FloorCorrected(stateValues0),
                 <<SuperCall(FloorCorrected(stateValues0), inputValues0)>>, NoError)

\* Installation.install of v1.80; fresh is the state emptyState returns when
\* stateValues is null
install_1_80(stateValues0, fresh, inputValues0) ==
    IF stateValues0 # Null /\ ~isStateValues(stateValues0)
    THEN Outcome(stateValues0, stateValues0, <<>>, validateState(stateValues0))
    ELSE
        LET s0 == IF stateValues0 = Null THEN fresh ELSE stateValues0
            current == SemVer(s0.apiserver.version)
        IN  IF ~current.ok
            THEN Outcome(s0, s0, <<>>, TypeError)
            ELSE
                LET s1 == IF compareMain(current, targetVirtualClusterVersion) = -1
                          THEN [s0 EXCEPT !.apiserver.version =
                                              targetVirtualClusterVersion.raw]
                          ELSE s0
                IN  Outcome(s0, s1, <<SuperCall(s1, inputValues0)>>, NoError)

(***************************************************************************)
(* One installation run: resolve the installer of the desired version,     *)
(* call its install, follow the delegation down to the oldest installer.   *)
(***************************************************************************)
\* the installers from newest to oldest; each extends the next
Chain ==
    <<"Installation_1_90", "Installation_1_81", "Installation_1_80",
      "Installation_1_74", "Installation_1_62", "Installation_1_51",
      "Installation_1_50", "Installation_1_47", "Installation_1_46">>

Terminal == Chain[Len(Chain)]

IndexOf(ctor) == CHOOSE i \in DOMAIN Chain : Chain[i] = ctor

\* the class an installer extends
Super(ctor) == Chain[IndexOf(ctor) + 1]

Call(installer, state, values) ==
    [installer |-> installer, state |-> state, values |-> values]

\* the desired versions of the runs: one per constructor and one unsupported
InstallTargets ==
    {Str(FALSE, 1, 46, 0, ""), Str(FALSE, 1, 48, 1, ""), Str(FALSE, 1, 50, 0, ""),
     Str(FALSE, 1, 55, 0, ""), Str(FALSE, 1, 70, 0, ""), Str(FALSE, 1, 74, 2, ""),
     Str(FALSE, 1, 80, 3, ""), Str(FALSE, 1, 85, 0, ""), Str(FALSE, 1, 95, 0, ""),
     Str(FALSE, 1, 96, 0, "")}

\* the version tag of the prior states
PriorVersion == Str(FALSE, 1, 74, 2, "")

\* the prior states of the runs: none, malformed ones, well-formed ones
PriorStates ==
    {Null, [apiserver |-> [version |-> Str(FALSE, 1, 20, 0, "")]],
     [version |-> PriorVersion]}
    \cup {StateOf(PriorVersion, a) :
            a \in ApiVersions \cup {Str(FALSE, 1, 20, 0, ""), Garbage}}

InstallIdle ==
    /\ ipc = "off" /\ priorState = Null /\ inputValues = [version |-> Garbage]
    /\ cur = "none" /\ stateValues = Null /\ checked = Null /\ calls = <<>>
    /\ effects = 0 /\ ierr = NoError

InstallInit ==
    /\ ipc = "idle"
    /\ priorState \in PriorStates
    /\ inputValues \in {[version |-> t] : t \in InstallTargets}
    /\ cur = "none"
    /\ stateValues = priorState
    /\ checked = Null
    /\ calls = <<>>
    /\ effects = 0
    /\ ierr = NoError

\* the caller: getInstallation(inputValues.version), then install on the
\* installer constructed
Resolve ==
    /\ ipc = "idle"
    /\ LET r == getInstallation(inputValues.version) IN
       IF r.kind = "throw"
       THEN /\ ipc' = "failed"
            /\ ierr' = r
            /\ UNCHANGED <<cur, calls>>
       ELSE /\ ipc' = "install"
            /\ cur' = r.ctor
            /\ calls' = <<Call(r.ctor, priorState, inputValues)>>
            /\ UNCHANGED ierr
    /\ UNCHANGED <<priorState, inputValues, stateValues, checked, effects>>
    /\ UNCHANGED <<registryVars, gardenerVars>>

\* install of the 1.80 installer, up to its await of super.install
Install_1_80 ==
    /\ ipc = "install"
    /\ cur = "Installation_1_80"
    /\ \E fresh \in IF stateValues = Null THEN emptyState(inputValues.version)
                                           ELSE {Null} :
        LET o == install_1_80(stateValues, fresh, inputValues) IN
        /\ stateValues' = o.state
        /\ checked' = o.checked
        /\ calls' = calls \o [i \in DOMAIN o.superCalls |->
                        Call(Super(cur), o.superCalls[i].state, o.superCalls[i].values)]
        /\ IF o.error # NoError
           THEN ipc' = "failed" /\ ierr' = o.error /\ UNCHANGED cur
           ELSE ipc' = "install" /\ cur' = Super(cur) /\ UNCHANGED ierr
    /\ UNCHANGED <<priorState, inputValues, effects>>
    /\ UNCHANGED <<registryVars, gardenerVars>>

\* install of an installer other than 1.80 and the oldest: it hands the
\* state to the class it extends
InstallDelegating ==
    /\ ipc = "install"
    /\ cur \notin {"Installation_1_80", Terminal}
    /\ calls' = Append(calls, Call(Super(cur), stateValues, inputValues))
    /\ cur' = Super(cur)
    /\ UNCHANGED <<ipc, priorState, inputValues, stateValues, checked, effects, ierr>>
    /\ UNCHANGED <<registryVars, gardenerVars>>

\* install of the oldest installer: the reconciliation against the cluster,
\* which succeeds or fails
InstallTerminal ==
    /\ ipc = "install"
    /\ cur = Terminal
    /\ effects' = effects + 1
    /\ \/ ipc' = "done" /\ UNCHANGED ierr
       \/ ipc' = "failed" /\ ierr' = [kind |-> "throw", error |-> "InfrastructureError"]
    /\ UNCHANGED <<priorState, inputValues, cur, stateValues, checked, calls>>
    /\ UNCHANGED <<registryVars, gardenerVars>>

(***************************************************************************)
(* Helm values: trees of objects and leaves, and their deep merge.         *)
(***************************************************************************)
Leaf(x) == [t |-> "leaf", v |-> x]
Obj(f) == [t |-> "obj", f |-> f]
EmptyObj == Obj([k \in {} |-> Leaf("")])

RECURSIVE deepMergeObject(_, _)
\* deepMergeObject(target, source): keys of both, objects merged key by key,
\* anything else taken from source
deepMergeObject(target, source) ==
    IF target.t = "obj" /\ source.t = "obj"
    THEN Obj([k \in DOMAIN target.f \cup DOMAIN source.f |->
                IF k \notin DOMAIN source.f THEN target.f[k]
                ELSE IF k \notin DOMAIN target.f THEN source.f[k]
                ELSE deepMergeObject(target.f[k], source.f[k])])
    ELSE source

GardenerVersion == "v1.41.1"

Resources(limCpu, limMem, reqCpu, reqMem) ==
    Obj([limits |-> Obj([cpu |-> Leaf(limCpu), memory |-> Leaf(limMem)]),
         requests |-> Obj([cpu |-> Leaf(reqCpu), memory |-> Leaf(reqMem)])])

defaultResources ==
    [apiserver |-> Resources("300m", "256Mi", "100m", "100Mi"),
     admission |-> Resources("300m", "512Mi", "100m", "200Mi"),
     controller |-> Resources("750m", "512Mi", "100m", "100Mi"),
     scheduler |-> Resources("300m", "256Mi", "50m", "50Mi")]

Image == Obj([tag |-> Leaf(GardenerVersion)])

Tls(crt, key) == Obj([crt |-> Leaf(crt), key |-> Leaf(key)])

\* the hard-coded defaults of the four sub-components
apiserverDefaults ==
    Obj([enabled |-> Leaf("true"),
         clusterIdentity |-> Leaf("values.landscapeName"),
         kubeconfig |-> Leaf("dummy"),
         image |-> Image,
         caBundle |-> Leaf("gardener.certs.ca.cert"),
         tls |-> Tls("gardener.certs.apiserver.cert",
                     "gardener.certs.apiserver.privateKey"),
         etcd |-> Obj([servers |-> Leaf("https://garden-etcd-main.garden.svc:2379"),
                       useSidecar |-> Leaf("false"),
                       caBundle |-> Leaf("etcd.tls.ca.cert"),
                       tls |-> Tls("etcd.tls.client.cert",
                                   "etcd.tls.client.privateKey")]),
         resources |-> defaultResources.apiserver,
         groupPriorityMinimum |-> Leaf("10000"),
         insecureSkipTLSVerify |-> Leaf("false"),
         replicaCount |-> Leaf("1"),
         serviceAccountName |-> Leaf("gardener-apiserver"),
         versionPriority |-> Leaf("20")])

controllerDefaults ==
    Obj([enabled |-> Leaf("true"),
         kubeconfig |-> Leaf("dummy"),
         image |-> Image,
         resources |-> defaultResources.controller,
         replicaCount |-> Leaf("1"),
         serviceAccountName |-> Leaf("gardener-controller-manager"),
         additionalVolumeMounts |-> Leaf("[]"),
         additionalVolumes |-> Leaf("[]"),
         alerting |-> Leaf("[]"),
         config |-> Obj([
             clientConnection |-> Obj([acceptContentTypes |-> Leaf("application/json"),
                                       contentType |-> Leaf("application/json"),
                                       qps |-> Leaf("100"), burst |-> Leaf("130")]),
             logLevel |-> Leaf("info"),
             controllers |-> Obj([
                 backupInfrastructure |-> Obj([concurrentSyncs |-> Leaf("20"),
                                               syncPeriod |-> Leaf("24h")]),
                 seed |-> Obj([concurrentSyncs |-> Leaf("5"),
                               reserveExcessCapacity |-> Leaf("false"),
                               syncPeriod |-> Leaf("1m")]),
                 shoot |-> Obj([concurrentSyncs |-> Leaf("20"),
                                retryDuration |-> Leaf("24h"),
                                syncPeriod |-> Leaf("1h")]),
                 shootCare |-> Obj([concurrentSyncs |-> Leaf("5"),
                                    conditionThresholds |-> Obj([
                                        apiServerAvailable |-> Leaf("1m"),
                                        controlPlaneHealthy |-> Leaf("1m"),
                                        everyNodeReady |-> Leaf("5m"),
                                        systemComponentsHealthy |-> Leaf("1m")]),
                                    syncPeriod |-> Leaf("30s")]),
                 shootMaintenance |-> Obj([concurrentSyncs |-> Leaf("5")]),
                 shootQuota |-> Obj([concurrentSyncs |-> Leaf("5"),
                                     syncPeriod |-> Leaf("60m")])]),
             featureGates |-> EmptyObj,
             leaderElection |-> Obj([leaderElect |-> Leaf("true"),
                                     leaseDuration |-> Leaf("15s"),
                                     renewDeadline |-> Leaf("10s"),
                                     resourceLock |-> Leaf("configmaps"),
                                     retryPeriod |-> Leaf("2s")]),
             server |-> Obj([
                 http |-> Obj([bindAddress |-> Leaf("0.0.0.0"), port |-> Leaf("2718")]),
                 https |-> Obj([bindAddress |-> Leaf("0.0.0.0"), port |-> Leaf("2719"),
                                tls |-> Obj([
                                    caBundle |-> Leaf("gardener.certs.ca.cert"),
                                    crt |-> Leaf("gardener.certs.controllerManager.cert"),
                                    key |-> Leaf("gardener.certs.controllerManager.privateKey")])])])])])

admissionDefaults ==
    Obj([enabled |-> Leaf("true"),
         kubeconfig |-> Leaf("dummy"),
         image |-> Image,
         resources |-> defaultResources.admission,
         replicaCount |-> Leaf("1"),
         serviceAccountName |-> Leaf("gardener-admission-controller"),
         config |-> Obj([
             gardenClientConnection |-> Obj([
                 acceptContentTypes |-> Leaf("application/json"),
                 contentType |-> Leaf("application/json"),
                 qps |-> Leaf("100"), burst |-> Leaf("130")]),
             server |-> Obj([
                 https |-> Obj([bindAddress |-> Leaf("0.0.0.0"), port |-> Leaf("2719"),
                                tls |-> Obj([
                                    caBundle |-> Leaf("gardener.certs.ca.cert"),
                                    crt |-> Leaf("gardener.certs.admissionController.cert"),
                                    key |-> Leaf("gardener.certs.admissionController.privateKey")])])])])])

schedulerDefaults ==
    Obj([enabled |-> Leaf("true"),
         kubeconfig |-> Leaf("dummy"),
         image |-> Image,
         resources |-> defaultResources.scheduler,
         replicaCount |-> Leaf("1"),
         serviceAccountName |-> Leaf("gardener-scheduler"),
         config |-> Obj([
             schedulers |-> Obj([
                 shoot |-> Obj([retrySyncPeriod |-> Leaf("1s"),
                                concurrentSyncs |-> Leaf("5"),
                                candidateDeterminationStrategy |->
                                    Leaf("gardener.seedCandidateDeterminationStrategy")])])])])

\* values is this.values.gardener: the operator's overrides per sub-component
apiserverValues(values) == deepMergeObject(apiserverDefaults, values.apiserver)
controllerValues(values) == deepMergeObject(controllerDefaults, values.admission)
admissionValues(values) == deepMergeObject(admissionDefaults, values.controller)
schedulerValues(values) == deepMergeObject(schedulerDefaults, values.scheduler)

\* getValues(): the sub-components under global, and the domains and the
\* deployment section beside them
getValues(values) ==
    [apiserver |-> apiserverValues(values),
     controller |-> controllerValues(values),
     admission |-> admissionValues(values),
     scheduler |-> schedulerValues(values),
     defaultDomains |-> Obj([domain |-> Leaf("shootDomainPrefix.host"),
                             provider |-> Leaf("dns.provider"),
                             credentials |-> Leaf("dns.credentials")]),
     internalDomains |-> Obj([domain |-> Leaf("internal.host"),
                              provider |-> Leaf("dns.provider"),
                              credentials |-> Leaf("dns.credentials")]),
     deployment |-> Obj([virtualGarden |-> Obj([enabled |-> Leaf("true"),
                                                clusterIP |-> Leaf("serviceCIDR[20]")])])]

(***************************************************************************)
(* The Gardener task: do().                                                *)
(***************************************************************************)
Instr(op, arg) == [op |-> op, arg |-> arg]

\* do() with the runtime chart applied right after the application chart
doStepsRuntimeEarly ==
    <<Instr("wait", "virtual-cluster"),
      Instr("applyApplication", "gardener-application"),
      Instr("applyRuntime", "gardener-runtime"),
      Instr("mint", "apiserver"),
      Instr("mint", "controller"),
      Instr("mint", "scheduler"),
      Instr("mint", "admission")>>

\* the awaited steps of do(), in program order
doSteps ==
    <<Instr("wait", "virtual-cluster"),
      Instr("applyApplication", "gardener-application"),
      Instr("mint", "apiserver"),
      Instr("mint", "controller"),
      Instr("mint", "scheduler"),
      Instr("mint", "admission"),
      Instr("applyRuntime", "gardener-runtime")>>

\* the service account whose credential is stored under a sub-component
ServiceAccount(component) ==
    CASE component = "apiserver" -> "gardener-apiserver"
      [] component = "controller" -> "gardener-controller-manager"
      [] component = "scheduler" -> "gardener-scheduler"
      [] component = "admission" -> "gardener-admission-controller"

\* getKubeConfigForServiceAccount(name) without a virtual client
Placeholder(name) ==
    CASE name = "gardener-apiserver" -> "dumy-gardener-apiserver"
      [] name = "gardener-controller-manager" -> "dumy-gardener-controller-manager"
      [] name = "gardener-scheduler" -> "dumy-gardener-scheduler"
      [] name = "gardener-admission-controller" -> "dumy-gardener-admission-controller"

\* kc.exportConfig() of the credential minted for a service account
Exported(name) ==
    CASE name = "gardener-apiserver" -> "kubeconfig:gardener-apiserver"
      [] name = "gardener-controller-manager" -> "kubeconfig:gardener-controller-manager"
      [] name = "gardener-scheduler" -> "kubeconfig:gardener-scheduler"
      [] name = "gardener-admission-controller" -> "kubeconfig:gardener-admission-controller"

\* gardenerValues.global.<component>.kubeconfig = kubeconfig
SetKubeconfig(values, component, kubeconfig) ==
    [values EXCEPT ![component] =
        Obj([k \in DOMAIN @.f \cup {"kubeconfig"} |->
                IF k = "kubeconfig" THEN Leaf(kubeconfig) ELSE @.f[k]])]

\* what a rejected await does to the run when the rejection is caught and
\* the run goes on
afterFailureSwallowed(pc0, error) ==
    [gpc |-> pc0 + 1,
     gstatus |-> IF pc0 + 1 > Len(doSteps) THEN "done" ELSE "running",
     thrown |-> "none"]

\* what a rejected await does to the run: do() has no try/catch, so the run
\* stops where it is and do() rejects with the same error
afterFailure(pc0, error) == [gpc |-> pc0, gstatus |-> "failed", thrown |-> error]

\* the errors the awaited collaborators reject with
Errors == {"TimeoutError", "ApplyError"}

NoRaise == [error |-> "none", step |-> Instr("none", "none")]

Unset == [unset |-> TRUE]

\* the operator's overrides of one sub-component
OverrideChoices ==
    {EmptyObj,
     Obj([replicaCount |-> Leaf("3")]),
     Obj([resources |-> Obj([limits |-> Obj([cpu |-> Leaf("1")])])])}

GardenerIdle ==
    /\ gpc = 0 /\ gstatus = "off" /\ dryRun = FALSE
    /\ overrides = [apiserver |-> EmptyObj, controller |-> EmptyObj,
                    admission |-> EmptyObj, scheduler |-> EmptyObj]
    /\ virtualClient = "none" /\ gardenerValues = Unset /\ applied = <<>>
    /\ steps = <<>> /\ raised = NoRaise /\ thrown = "none"

GardenerInit ==
    /\ gpc = 1
    /\ gstatus = "running"
    /\ dryRun \in BOOLEAN
    /\ overrides \in [apiserver : OverrideChoices, controller : OverrideChoices,
                       admission : OverrideChoices, scheduler : OverrideChoices]
    /\ virtualClient = "none"
    /\ gardenerValues = Unset
    /\ applied = <<>>
    /\ steps = <<>>
    /\ raised = NoRaise
    /\ thrown = "none"

\* the awaited step resolved: on to the next one
Advance ==
    /\ gpc' = gpc + 1
    /\ gstatus' = IF gpc + 1 > Len(doSteps) THEN "done" ELSE "running"
    /\ UNCHANGED <<raised, thrown>>

\* the awaited step rejected with error e
Reject(e) ==
    /\ raised' = [error |-> e, step |-> doSteps[gpc]]
    /\ gpc' = afterFailure(gpc, e).gpc
    /\ gstatus' = afterFailure(gpc, e).gstatus
    /\ thrown' = afterFailure(gpc, e).thrown

AtStep(op) == gstatus = "running" /\ doSteps[gpc].op = op

Release(chart, kubeconfig) ==
    [chart |-> chart, values |-> gardenerValues', kubeconfig |-> kubeconfig]

\* if (!this.dryRun) this.virtualClient = await waitUntilVirtualClusterIsReady(..)
WaitUntilVirtualClusterIsReady ==
    /\ AtStep("wait")
    /\ IF dryRun
       THEN Advance /\ UNCHANGED <<virtualClient, steps>>
       ELSE /\ steps' = Append(steps, doSteps[gpc])
            /\ \/ Advance /\ virtualClient' = "virtual"
               \/ \E e \in Errors : Reject(e) /\ UNCHANGED virtualClient
    /\ UNCHANGED <<dryRun, overrides, gardenerValues, applied>>
    /\ UNCHANGED <<registryVars, installVars>>

\* getValues(), then the application chart applied to the virtual cluster
ApplyApplicationChart ==
    /\ AtStep("applyApplication")
    /\ gardenerValues' = getValues(overrides)
    /\ steps' = Append(steps, doSteps[gpc])
    /\ \/ /\ Advance
          /\ applied' = Append(applied, Release("gardener-application",
                            IF virtualClient = "none" THEN "default" ELSE "virtual"))
       \/ \E e \in Errors : Reject(e) /\ UNCHANGED applied
    /\ UNCHANGED <<dryRun, overrides, virtualClient>>
    /\ UNCHANGED <<registryVars, installVars>>

\* gardenerValues.global.X.kubeconfig = await this.getKubeConfigForServiceAccount(..)
MintKubeconfig ==
    /\ AtStep("mint")
    /\ steps' = Append(steps, doSteps[gpc])
    /\ LET component == doSteps[gpc].arg
           name == ServiceAccount(component)
       IN  IF virtualClient = "none"
           THEN /\ Advance
                /\ gardenerValues' = SetKubeconfig(gardenerValues, component,
                                                   Placeholder(name))
           ELSE \/ /\ Advance
                   /\ gardenerValues' = SetKubeconfig(gardenerValues, component,
                                                      Exported(name))
                \/ \E e \in Errors : Reject(e) /\ UNCHANGED gardenerValues
    /\ UNCHANGED <<dryRun, overrides, virtualClient, applied>>
    /\ UNCHANGED <<registryVars, installVars>>

\* the runtime chart applied to the host cluster
ApplyRuntimeChart ==
    /\ AtStep("applyRuntime")
    /\ UNCHANGED <<dryRun, overrides, virtualClient, gardenerValues>>
    /\ steps' = Append(steps, doSteps[gpc])
    /\ \/ /\ Advance
          /\ applied' = Append(applied, Release("gardener-runtime", "default"))
       \/ \E e \in Errors : Reject(e) /\ UNCHANGED applied
    /\ UNCHANGED <<registryVars, installVars>>

(***************************************************************************)
(* Specifications.                                                         *)
(***************************************************************************)
RegistryNext == CallGetInstallation \/ CallConvertStateValues
InstallNext == Resolve \/ Install_1_80 \/ InstallDelegating \/ InstallTerminal
GardenerNext ==
    \/ WaitUntilVirtualClusterIsReady
    \/ ApplyApplicationChart
    \/ MintKubeconfig
    \/ ApplyRuntimeChart

InitRegistry == RegistryInit /\ InstallIdle /\ GardenerIdle
InitInstall == RegistryIdle /\ InstallInit /\ GardenerIdle
InitGardener == RegistryIdle /\ InstallIdle /\ GardenerInit

SpecRegistry == InitRegistry /\ [][RegistryNext]_vars
SpecInstall == InitInstall /\ [][InstallNext]_vars
SpecGardener == InitGardener /\ [][GardenerNext]_vars

(***************************************************************************)
(* Properties of the version registry.                                     *)
(***************************************************************************)
\* a patch release 1.M.P of a declared band, 46 <= M <= 95
InDeclaredBand(s) ==
    s.wellformed /\ s.major = 1 /\ s.minor \in 46..95 /\ s.pre = ""

\* the entries a version string satisfies
Matches(version) ==
    {i \in DOMAIN versions : satisfies(version, versions[i].range)}

\* C1: getInstallation(V) throws VersionNotFound carrying V exactly when V
\* satisfies no declared range (so for every well-formed V outside 1.46 ..
\* 1.95), and returns a constructor for every patch release 1.M.P with
\* 46 <= M <= 95.
C1_GetInstallation ==
    rpc = "resolved" =>
        /\ (result.kind = "throw") <=> (Matches(argVersion) = {})
        /\ result.kind = "throw" => result = VersionNotFound(argVersion)
        /\ (argVersion.wellformed /\ (argVersion.major # 1 \/ argVersion.minor < 46
                                       \/ argVersion.minor > 95))
              => result = VersionNotFound(argVersion)
        /\ InDeclaredBand(argVersion)
              => result.kind = "return" /\ result.ctor \in Constructors

\* 1.96.0, above the newest band, was looked up and rejected
C1_Witness ==
    /\ rpc = "resolved"
    /\ argVersion = Str(FALSE, 1, 96, 0, "")
    /\ result = VersionNotFound(Str(FALSE, 1, 96, 0, ""))

\* the lookup scanning the table from its last entry to its first
getInstallationReversed(version) ==
    IF Matches(version) = {}
    THEN VersionNotFound(version)
    ELSE [kind |-> "return",
          ctor |-> versions[CHOOSE i \in Matches(version) :
                                \A j \in Matches(version) : i >= j].ctor]

\* C2: no version string satisfies two entries of the table, so the
\* constructor returned is the one of the only matching entry and a scan in
\* the opposite order returns the same.
C2_Disjoint ==
    /\ Cardinality(Matches(argVersion)) <= 1
    /\ rpc = "resolved" => result = getInstallationReversed(argVersion)
    /\ (rpc = "resolved" /\ result.kind = "return")
          => \A i \in Matches(argVersion) : versions[i].ctor = result.ctor

\* 1.48.1 resolved to the constructor that three patterns share
C2_Witness ==
    /\ rpc = "resolved"
    /\ argVersion = Str(FALSE, 1, 48, 1, "")
    /\ result = [kind |-> "return", ctor |-> "Installation_1_47"]
    /\ Cardinality({i \in DOMAIN versions : versions[i].ctor = result.ctor}) = 3

\* C8: convertStateValues returns the state it was given when the state's
\* version satisfies a declared range and throws VersionNotFound carrying the
\* state's version otherwise, whatever the target version is.
C8_ConvertStateValues ==
    rpc = "converted" =>
        /\ Matches(argState.version) # {}
              => result = [kind |-> "return", state |-> argState]
        /\ Matches(argState.version) = {}
              => result = VersionNotFound(argState.version)
        /\ InDeclaredBand(argState.version) => result.kind = "return"
        /\ \A t \in TargetStrings : convertStateValues(argState, t) = result

\* a state of a declared band came back unchanged although the target
\* version satisfies no range
C8_Witness ==
    /\ rpc = "converted"
    /\ argTarget = Garbage
    /\ InDeclaredBand(argState.version)
    /\ result = [kind |-> "return", state |-> argState]

(***************************************************************************)
(* Properties of the installer chain.                                      *)
(***************************************************************************)
\* the positions of the calls of an installer's install
CallsOf(installer) == {i \in DOMAIN calls : calls[i].installer = installer}

\* a well-formed state whose apiserver version is below the floor by
\* major.minor.patch
OlderThanFloor(state) ==
    /\ state # Null
    /\ isStateValues(state)
    /\ SemVer(state.apiserver.version).ok
    /\ compareMain(SemVer(state.apiserver.version),
                   SemVer(Str(TRUE, 1, 23, 16, ""))) = -1

\* the 1.80 installer has run its install up to the await of super.install
Acted_1_80 == CallsOf("Installation_1_80") # {} /\ cur # "Installation_1_80"

\* C3 as stated: a prior state with an apiserver version older than the
\* floor is handed to the 1.74 installer, once, with the apiserver version
\* "1.23.16".
C3_Original ==
    \A i \in CallsOf("Installation_1_80") :
        (OlderThanFloor(calls[i].state) /\ Acted_1_80) =>
            /\ Cardinality(CallsOf("Installation_1_74")) = 1
            /\ calls[i + 1].state.apiserver.version = Str(FALSE, 1, 23, 16, "")

\* C3 amended: a prior state with an apiserver version older than the floor
\* is handed to the 1.74 installer, once, with the same desired values and
\* with the apiserver version set to the floor as it is written in the
\* source, "v1.23.16" (version 1.23.16, with the "v"), nothing else changed.
C3_FloorRaw ==
    \A i \in CallsOf("Installation_1_80") :
        (OlderThanFloor(calls[i].state) /\ Acted_1_80) =>
            /\ Cardinality(CallsOf("Installation_1_74")) = 1
            /\ i + 1 \in CallsOf("Installation_1_74")
            /\ calls[i + 1].values = inputValues
            /\ calls[i + 1].state =
                   [calls[i].state EXCEPT !.apiserver.version = Str(TRUE, 1, 23, 16, "")]
            /\ compare(SemVer(calls[i + 1].state.apiserver.version),
                       SemVer(Str(FALSE, 1, 23, 16, ""))) = 0

\* prior apiserver version "1.20.0", desired version "1.80.3": the 1.74
\* installer was called with "v1.23.16"
C3_Witness ==
    /\ inputValues.version = Str(FALSE, 1, 80, 3, "")
    /\ priorState = StateOf(PriorVersion, Str(FALSE, 1, 20, 0, ""))
    /\ Len(calls) >= 2
    /\ calls[1].installer = "Installation_1_80"
    /\ calls[2].installer = "Installation_1_74"
    /\ calls[2].state.apiserver.version = Str(TRUE, 1, 23, 16, "")

Malformed == ierr.kind = "throw" /\ ierr.error = "MalformedState"

\* C4 as stated: when the malformed-state error surfaces, no installer has
\* been resolved or invoked, no state field has changed and nothing has been
\* delegated.
C4_Original ==
    Malformed => calls = <<>> /\ cur = "none" /\ stateValues = priorState

\* C4 amended: in a run that reaches the 1.80 installer the malformed-state
\* error is raised inside that installer's install, so after an installer
\* was resolved and the 1.80 installer invoked, and before it changes any
\* state field, delegates to the 1.74 installer or anything touches the
\* cluster; the error names what is missing.
C4_MalformedBeforeMutation ==
    Malformed =>
        /\ ipc = "failed"
        /\ calls # <<>>
        /\ calls[Len(calls)].installer = "Installation_1_80"
        /\ CallsOf("Installation_1_74") = {}
        /\ \A i \in DOMAIN calls : calls[i].state = priorState
        /\ stateValues = priorState
        /\ priorState # Null
        /\ ierr.missing = {"version", "apiserver"} \ DOMAIN priorState
        /\ ierr.missing # {}
        /\ effects = 0

\* a prior state without its version tag was rejected by the 1.80 installer
C4_Witness ==
    /\ Malformed
    /\ "version" \notin DOMAIN priorState
    /\ calls[1].installer = "Installation_1_80"

\* the installers from the one resolved down to the one running
Descent ==
    IF calls = <<>> THEN <<>>
    ELSE [i \in 1..(IndexOf(calls[Len(calls)].installer) - IndexOf(calls[1].installer) + 1)
             |-> Chain[IndexOf(calls[1].installer) + i - 1]]

\* C5: every installer is invoked at most once per run, by the installer
\* that extends it and with the desired values of the run; the 1.80 installer
\* hands on the state as it left it; nothing touches the cluster before the
\* oldest installer runs, and a run that ends without an error has invoked
\* every installer from the resolved one down to the oldest exactly once and
\* reconciled exactly once.
C5_DelegateOnce ==
    /\ [i \in DOMAIN calls |-> calls[i].installer] = Descent
    /\ \A i \in DOMAIN calls : calls[i].values = inputValues
    /\ \A i \in DOMAIN calls :
          calls[i].state = IF IndexOf(calls[i].installer) <= IndexOf("Installation_1_80")
                           THEN priorState ELSE stateValues
    /\ effects <= 1
    /\ effects = 1 => (calls # <<>> /\ calls[Len(calls)].installer = Terminal)
    /\ effects = 0 => ipc # "done"
    /\ ipc = "done" =>
          /\ effects = 1
          /\ ierr = NoError
          /\ calls[Len(calls)].installer = Terminal
          /\ Len(calls) = Len(Chain) - IndexOf(calls[1].installer) + 1

\* a run for 1.80.3 with a corrected state went down the chain and
\* reconciled once
C5_Witness ==
    /\ ipc = "done"
    /\ calls[1].installer = "Installation_1_80"
    /\ stateValues # priorState
    /\ calls[2].state = stateValues
    /\ effects = 1

\* the run has met no error of the state: none at all, or one of the cluster
NoStateError == ierr.kind = "throw" => ierr.error = "InfrastructureError"

StartedAt(instr) == {i \in DOMAIN steps : steps[i] = instr}

Started(instr) == StartedAt(instr) # {}

\* b was started only after a was
Precedes(a, b) ==
    Started(b) => (Started(a) /\ \A i \in StartedAt(a), j \in StartedAt(b) : i < j)

Components == {"apiserver", "controller", "scheduler", "admission"}

WaitStep == Instr("wait", "virtual-cluster")
ApplicationStep == Instr("applyApplication", "gardener-application")
RuntimeStep == Instr("applyRuntime", "gardener-runtime")

\* the credential do() stores for a sub-component in this run
Minted(component) ==
    IF dryRun THEN Placeholder(ServiceAccount(component))
    ELSE Exported(ServiceAccount(component))

\* C6: outside a dry run the virtual cluster is ready before anything is
\* applied; the application chart is applied before a credential is minted;
\* the four credentials are minted, apiserver, controller-manager, scheduler,
\* admission-controller, before the runtime chart is applied; and the runtime
\* chart is applied with the minted credentials, none of them 'dummy'.
C6_StrictOrder ==
    /\ \A i, j \in DOMAIN steps : i < j => steps[i] # steps[j]
    /\ ~dryRun => Precedes(WaitStep, ApplicationStep) /\ Precedes(WaitStep, RuntimeStep)
    /\ (~dryRun /\ Started(ApplicationStep)) => virtualClient = "virtual"
    /\ \A c \in Components :
          /\ Precedes(ApplicationStep, Instr("mint", c))
          /\ Started(Instr("mint", c))
                => (applied # <<>> /\ applied[1].chart = "gardener-application")
          /\ Precedes(Instr("mint", c), RuntimeStep)
    /\ Precedes(Instr("mint", "apiserver"), Instr("mint", "controller"))
    /\ Precedes(Instr("mint", "controller"), Instr("mint", "scheduler"))
    /\ Precedes(Instr("mint", "scheduler"), Instr("mint", "admission"))
    /\ \A i \in DOMAIN applied :
          applied[i].chart = "gardener-runtime" =>
              /\ i = 2
              /\ \A c \in Components :
                    /\ applied[i].values[c].f.kubeconfig = Leaf(Minted(c))
                    /\ applied[i].values[c].f.kubeconfig # Leaf("dummy")

\* a real run that applied the runtime chart with the minted credentials
C6_Witness ==
    /\ gstatus = "done"
    /\ ~dryRun
    /\ Len(applied) = 2
    /\ applied[1].values.apiserver.f.kubeconfig = Leaf("dummy")
    /\ applied[2].values.apiserver.f.kubeconfig = Leaf("kubeconfig:gardener-apiserver")

\* C7: once a step before the runtime chart has failed, the run has stopped
\* at that step: do() rejects with the very error, the failed step is the
\* last one started, no step was started twice and the runtime chart has
\* neither been started nor applied.
C7_FirstHalfFailure ==
    (raised # NoRaise /\ raised.step # RuntimeStep) =>
        /\ gstatus = "failed"
        /\ thrown = raised.error
        /\ steps[Len(steps)] = raised.step
        /\ \A i, j \in DOMAIN steps : i < j => steps[i] # steps[j]
        /\ ~Started(RuntimeStep)
        /\ \A i \in DOMAIN applied : applied[i].chart # "gardener-runtime"

\* minting the scheduler's credential failed after the application chart
\* was applied
C7_Witness ==
    /\ raised.step = Instr("mint", "scheduler")
    /\ gstatus = "failed"
    /\ thrown = raised.error
    /\ Len(applied) = 1

Defaults(component) ==
    CASE component = "apiserver" -> apiserverDefaults
      [] component = "controller" -> controllerDefaults
      [] component = "scheduler" -> schedulerDefaults
      [] component = "admission" -> admissionDefaults

\* C10: the values the application chart is applied with hold, for each
\* sub-component, its defaults deep-merged with the overrides of that same
\* sub-component.
C10_OwnOverrides ==
    \A i \in DOMAIN applied :
        applied[i].chart = "gardener-application" =>
            \A c \in Components :
                applied[i].values[c] = deepMergeObject(Defaults(c), overrides[c])

====
